---- MODULE Spec2Model ----
(***************************************************************************)
(* Model of app/main.py: the mailbox extractor, the summarizer and the two *)
(* HTTP handlers (POST /extract, GET /emails).                             *)
(*                                                                         *)
(* Time is counted in whole hours.  A message carries the wall-clock time  *)
(* of its Date header (wall) and the UTC offset of that header (off); its  *)
(* true UTC instant is wall - off.  Both handlers are coroutines without a *)
(* suspension point, so requests never interleave: GET /emails and the     *)
(* clock only move while no extraction is running.                         *)
(***************************************************************************)
EXTENDS Integers, Sequences, FiniteSets, TLC

VARIABLES
    mailbox,          \* the INBOX: a sequence of messages, in UID order
    now,              \* the UTC clock, in hours
    store,            \* the rows of the "emails" table, in insertion order
    pc,               \* position of the running request
    request,          \* the EmailRequest being served
    date_since,       \* extract_emails_from_inbox: the cutoff
    conn,             \* the IMAP connection: "none", "open" or "closed"
    connects,         \* MailBox(...) constructions of the current invocation
    sender_i,         \* index of the sender being fetched
    messages,         \* messages still to be yielded by mailbox.fetch
    email_data,       \* extract_emails_from_inbox: the list being built
    result,           \* the extractor call: "pending", "returned", "raised"
    extracted_emails, \* extract_from_email: what the extractor returned
    insert_i,         \* index of the record being inserted
    stored_count,     \* extract_from_email: stored_count
    response,         \* the HTTP response of the last finished request
    reqs,             \* number of POST /extract requests started
    faults,           \* number of collaborator failures so far
    seen,             \* history: messages yielded to the loop, this request
    sumLog,           \* history: outcomes of the summarization calls
    attempts,         \* history: rows submitted to insert, this request
    storeAtStart,     \* history: the store when the request started
    error_msg         \* history: str(e) caught by the extractor, "" if none

vars == <<mailbox, now, store, pc, request, date_since, conn, connects,
          sender_i, messages, email_data, result, extracted_emails, insert_i,
          stored_count, response, reqs, faults, seen, sumLog, attempts,
          storeAtStart, error_msg>>

----------------------------------------------------------------------------
(* Bounds of the model *)

MaxMsgs == 2
MaxSenders == 2
MaxRequests == 2
MaxFaults == 1
MaxTicks == 1

(* Program constants *)

WindowHours == 24
HoursPerDay == 24
Sentinel == "Failed to generate summary"

----------------------------------------------------------------------------
(* Inputs *)

Senders == {"a@x.com", "b@x.com"}
Account == "me@gmail.com"
Now0 == 2 * HoursPerDay + 1
Cutoff0 == Now0 - WindowHours
Summaries == {"summary"}

Day(t) == t \div HoursPerDay
TrueInstant(m) == m.wall - m.off

\* The Date headers of the messages: <<wall, off, bad>>, bad when building
\* the record of the message raises.
Headers ==
    { <<Cutoff0 + 1, 0, FALSE>>,   \* an hour after the cutoff
      <<Cutoff0, 1, FALSE>>,       \* 25:00+01:00, an hour before the cutoff
      <<Cutoff0 - 1, 0, FALSE>>,   \* the cutoff's day, before the cutoff
      <<Cutoff0 - 1, 1, FALSE>>,   \* the day before
      <<Cutoff0 + 1, 0, TRUE>> }   \* within the window, malformed

Message == {m \in [uid : 1..MaxMsgs, from_ : Senders,
                   wall : {h[1] : h \in Headers}, off : {h[2] : h \in Headers},
                   bad : BOOLEAN] : <<m.wall, m.off, m.bad>> \in Headers}

SeqsUpTo(S, n) == UNION {[1..k -> S] : k \in 0..n}

\* The INBOX lists its messages by UID, that is in order of arrival.
Mailboxes == {mb \in SeqsUpTo(Message, MaxMsgs) :
                 /\ \A i \in 1..Len(mb) : mb[i].uid = i
                 /\ \A i \in 1..Len(mb) - 1 :
                       TrueInstant(mb[i]) <= TrueInstant(mb[i + 1])}

\* The sender lists of the requests: no address twice.
SenderLists == {sl \in SeqsUpTo(Senders, MaxSenders) :
                   \A i, j \in 1..Len(sl) : i # j => sl[i] # sl[j]}

RECURSIVE Concat(_)
Concat(ss) == IF ss = <<>> THEN <<>> ELSE Head(ss) \o Concat(Tail(ss))

NoResponse == [to |-> "none", status_code |-> 0, body |-> [none |-> TRUE]]

----------------------------------------------------------------------------
(* summarize_single_email: outcome is what the completion call does, a     *)
(* text of Summaries or "error" when it raises.                            *)

\* mutant: the except clause returns the error text
summarize_returns_error(outcome) == outcome

summarize_single_email(outcome) ==
    IF outcome = "error" THEN Sentinel ELSE outcome

(* msg.date.replace(tzinfo=utc): the header's wall-clock time, relabelled  *)
(* as UTC; the header's offset is dropped, not applied.                    *)
MsgDate(m) == m.wall

(* mailbox.fetch(AND(from_=sender, date_gte=date_since.date())): the       *)
(* messages of the sender received on or after the cutoff's calendar day.  *)
Fetch(mb, sender, since) ==
    SelectSeq(mb, LAMBDA m : m.from_ = sender
                             /\ Day(TrueInstant(m)) >= Day(since))

(* the dict built for a message that passed the filter *)
EmailContent(m, msg_date, clock, summary) ==
    [uid |-> m.uid, from_address |-> m.from_, date |-> msg_date,
     extracted_at |-> clock, summary |-> summary]

(* the HTTPException raised by extract_emails_from_inbox *)
FetchException(err, email_address) ==
    [kind |-> "HTTPException", status_code |-> 500,
     detail |-> [message |-> "Failed to fetch emails", error |-> err,
                 email |-> email_address]]

\* mutant: the except clause wraps every exception as plain text
ExtractExcept_rewrap(e) ==
    [kind |-> "HTTPException", status_code |-> 500,
     detail |-> [text |-> "500: Failed to fetch emails"]]

(* except clause of extract_from_email *)
ExtractExcept(e) ==
    IF e.kind = "HTTPException"
    THEN e
    ELSE [kind |-> "HTTPException", status_code |-> 500,
          detail |-> [text |-> e.text]]

ErrorResponse(to, e) ==
    [to |-> to, status_code |-> e.status_code, body |-> e.detail]

\* mutant: no early return, the counts are reported as zero
NoEmailsResponse_counts(senders) ==
    [to |-> "extract", status_code |-> 200,
     body |-> [message |-> "Emails extracted and stored successfully",
               emails_found |-> 0, emails_stored |-> 0,
               senders_processed |-> senders]]

NoEmailsResponse(senders) ==
    [to |-> "extract", status_code |-> 200,
     body |-> [message |-> "No emails found in the last 24 hours from specified senders",
               senders_processed |-> senders]]

StoredResponse(found, stored, senders) ==
    [to |-> "extract", status_code |-> 200,
     body |-> [message |-> "Emails extracted and stored successfully",
               emails_found |-> found, emails_stored |-> stored,
               senders_processed |-> senders]]

----------------------------------------------------------------------------
Init ==
    /\ mailbox \in Mailboxes
    /\ now = Now0
    /\ store = <<>>
    /\ pc = "idle"
    /\ request = [email_address |-> Account, sender_addresses |-> <<>>]
    /\ date_since = Cutoff0
    /\ conn = "none"
    /\ connects = 0
    /\ sender_i = 1
    /\ messages = <<>>
    /\ email_data = <<>>
    /\ result = "pending"
    /\ extracted_emails = <<>>
    /\ insert_i = 1
    /\ stored_count = 0
    /\ response = NoResponse
    /\ reqs = 0
    /\ faults = 0
    /\ seen = <<>>
    /\ sumLog = <<>>
    /\ attempts = <<>>
    /\ storeAtStart = <<>>
    /\ error_msg = ""

----------------------------------------------------------------------------
(* POST /extract *)

\* the extractor raised: the handler's except clause answers the request
Raise(e) ==
    /\ error_msg' = e
    /\ result' = "raised"
    /\ response' = ErrorResponse("extract",
                      ExtractExcept(FetchException(e,
                                                   request.email_address)))
    /\ pc' = "done"

\* extract_from_email is called; the extractor computes the cutoff
StartExtract ==
    /\ pc = "idle"
    /\ reqs < MaxRequests
    /\ \E senders \in SenderLists :
          request' = [email_address |-> Account, sender_addresses |-> senders]
    /\ reqs' = reqs + 1
    /\ date_since' = now - WindowHours
    /\ email_data' = <<>>
    /\ pc' = "connect"
    /\ conn' = "none"
    /\ connects' = 0
    /\ sender_i' = 1
    /\ messages' = <<>>
    /\ result' = "pending"
    /\ extracted_emails' = <<>>
    /\ insert_i' = 1
    /\ stored_count' = 0
    /\ response' = NoResponse
    /\ seen' = <<>>
    /\ sumLog' = <<>>
    /\ attempts' = <<>>
    /\ storeAtStart' = store
    /\ error_msg' = ""
    /\ UNCHANGED <<mailbox, now, store, faults>>

\* MailBox('imap.gmail.com') raises: no connection is established
ConnectFail ==
    /\ pc = "connect"
    /\ faults < MaxFaults
    /\ faults' = faults + 1
    /\ connects' = connects + 1
    /\ Raise("connect failed")
    /\ UNCHANGED <<mailbox, now, store, request, date_since, conn, sender_i,
                   messages, email_data, extracted_emails, insert_i,
                   stored_count, reqs, seen, sumLog, attempts, storeAtStart>>

\* MailBox(...) connects, .login(...) raises before the with block is
\* entered: nothing logs the connection out
LoginFail ==
    /\ pc = "connect"
    /\ faults < MaxFaults
    /\ faults' = faults + 1
    /\ connects' = connects + 1
    /\ conn' = "open"
    /\ Raise("login failed")
    /\ UNCHANGED <<mailbox, now, store, request, date_since, sender_i,
                   messages, email_data, extracted_emails, insert_i,
                   stored_count, reqs, seen, sumLog, attempts, storeAtStart>>

\* MailBox(...).login(...) succeeds and the with block is entered
LoginOk ==
    /\ pc = "connect"
    /\ connects' = connects + 1
    /\ conn' = "open"
    /\ pc' = "senders"
    /\ UNCHANGED <<mailbox, now, store, request, date_since, sender_i,
                   messages, email_data, result, extracted_emails, insert_i,
                   stored_count, response, reqs, faults, seen, sumLog,
                   attempts, storeAtStart,
                   error_msg>>

\* for sender in sender_addresses: the search of the next sender
NextSender ==
    /\ pc = "senders"
    /\ sender_i <= Len(request.sender_addresses)
    /\ messages' = Fetch(mailbox, request.sender_addresses[sender_i],
                         date_since)
    /\ pc' = "messages"
    /\ UNCHANGED <<mailbox, now, store, request, date_since, conn, connects,
                   sender_i, email_data, result, extracted_emails, insert_i,
                   stored_count, response, reqs, faults, seen, sumLog,
                   attempts, storeAtStart,
                   error_msg>>

\* the search, or the fetch of the next message, raises: the with block
\* logs out and the outer except turns the error into the HTTPException
FetchFail ==
    /\ \/ pc = "senders" /\ sender_i <= Len(request.sender_addresses)
       \/ pc = "messages" /\ messages # <<>>
    /\ faults < MaxFaults
    /\ faults' = faults + 1
    /\ conn' = "closed"
    /\ Raise("fetch failed")
    /\ UNCHANGED <<mailbox, now, store, request, date_since, connects,
                   sender_i, messages, email_data, extracted_emails,
                   insert_i, stored_count, reqs, seen, sumLog, attempts,
                   storeAtStart>>

\* a message older than the cutoff: the else branch of the filter
SkipOldMessage ==
    /\ pc = "messages"
    /\ messages # <<>>
    /\ ~(MsgDate(Head(messages)) >= date_since)
    /\ messages' = Tail(messages)
    /\ seen' = Append(seen, Head(messages))
    /\ UNCHANGED <<mailbox, now, store, pc, request, date_since, conn,
                   connects, sender_i, email_data, result, extracted_emails,
                   insert_i, stored_count, response, reqs, faults, sumLog,
                   attempts, storeAtStart,
                   error_msg>>

\* mutant: break instead of continue
SkipBadMessage_break ==
    /\ pc = "messages"
    /\ messages # <<>>
    /\ MsgDate(Head(messages)) >= date_since
    /\ Head(messages).bad
    /\ messages' = <<>>
    /\ seen' = Append(seen, Head(messages))
    /\ UNCHANGED <<mailbox, now, store, pc, request, date_since, conn,
                   connects, sender_i, email_data, result, extracted_emails,
                   insert_i, stored_count, response, reqs, faults, sumLog,
                   attempts, storeAtStart, error_msg>>

\* building the record raises: except Exception ... continue
SkipBadMessage ==
    /\ pc = "messages"
    /\ messages # <<>>
    /\ MsgDate(Head(messages)) >= date_since
    /\ Head(messages).bad
    /\ messages' = Tail(messages)
    /\ seen' = Append(seen, Head(messages))
    /\ UNCHANGED <<mailbox, now, store, pc, request, date_since, conn,
                   connects, sender_i, email_data, result, extracted_emails,
                   insert_i, stored_count, response, reqs, faults, sumLog,
                   attempts, storeAtStart,
                   error_msg>>

\* mutant: the record is inserted as soon as it is built
BuildRecord_inline ==
    /\ pc = "messages"
    /\ messages # <<>>
    /\ MsgDate(Head(messages)) >= date_since
    /\ ~Head(messages).bad
    /\ \E outcome \in Summaries \cup {"error"} :
          LET rec == EmailContent(Head(messages), MsgDate(Head(messages)),
                                  now, summarize_single_email(outcome))
          IN  /\ outcome = "error" => faults < MaxFaults
              /\ faults' = IF outcome = "error" THEN faults + 1 ELSE faults
              /\ sumLog' = Append(sumLog, outcome)
              /\ email_data' = Append(email_data, rec)
              /\ attempts' = Append(attempts, rec)
              /\ store' = Append(store, rec)
    /\ messages' = Tail(messages)
    /\ seen' = Append(seen, Head(messages))
    /\ UNCHANGED <<mailbox, now, pc, request, date_since, conn, connects,
                   sender_i, result, extracted_emails, insert_i,
                   stored_count, response, reqs, storeAtStart, error_msg>>

\* a message within the window: the record is built, summarized, appended
BuildRecord ==
    /\ pc = "messages"
    /\ messages # <<>>
    /\ MsgDate(Head(messages)) >= date_since
    /\ ~Head(messages).bad
    /\ \E outcome \in Summaries \cup {"error"} :
          /\ outcome = "error" => faults < MaxFaults
          /\ faults' = IF outcome = "error" THEN faults + 1 ELSE faults
          /\ sumLog' = Append(sumLog, outcome)
          /\ email_data' = Append(email_data,
                EmailContent(Head(messages), MsgDate(Head(messages)), now,
                             summarize_single_email(outcome)))
    /\ messages' = Tail(messages)
    /\ seen' = Append(seen, Head(messages))
    /\ UNCHANGED <<mailbox, now, store, pc, request, date_since, conn,
                   connects, sender_i, result, extracted_emails, insert_i,
                   stored_count, response, reqs, attempts, storeAtStart,
                   error_msg>>

\* the messages of the sender are exhausted
EndSender ==
    /\ pc = "messages"
    /\ messages = <<>>
    /\ sender_i' = sender_i + 1
    /\ pc' = "senders"
    /\ UNCHANGED <<mailbox, now, store, request, date_since, conn, connects,
                   messages, email_data, result, extracted_emails, insert_i,
                   stored_count, response, reqs, faults, seen, sumLog,
                   attempts, storeAtStart,
                   error_msg>>

\* the with block ends, the extractor returns email_data and the handler
\* answers at once when the list is empty
ExtractReturn ==
    /\ pc = "senders"
    /\ sender_i > Len(request.sender_addresses)
    /\ conn' = "closed"
    /\ result' = "returned"
    /\ extracted_emails' = email_data
    /\ IF email_data = <<>>
       THEN /\ response' = NoEmailsResponse(request.sender_addresses)
            /\ pc' = "done"
       ELSE /\ response' = response
            /\ pc' = "insert"
    /\ UNCHANGED <<mailbox, now, store, request, date_since, connects,
                   sender_i, messages, email_data, insert_i, stored_count,
                   reqs, faults, seen, sumLog, attempts, storeAtStart,
                   error_msg>>

\* mutant: a row that is already stored is not inserted again
InsertOk_dedup ==
    /\ pc = "insert"
    /\ insert_i <= Len(extracted_emails)
    /\ attempts' = Append(attempts, extracted_emails[insert_i])
    /\ store' = IF \E k \in 1..Len(store) : store[k] = extracted_emails[insert_i]
                THEN store
                ELSE Append(store, extracted_emails[insert_i])
    /\ stored_count' = stored_count + 1
    /\ insert_i' = insert_i + 1
    /\ UNCHANGED <<mailbox, now, pc, request, date_since, conn, connects,
                   sender_i, messages, email_data, result, extracted_emails,
                   response, reqs, faults, seen, sumLog, storeAtStart,
                   error_msg>>

\* supabase.table("emails").insert(email_data).execute() succeeds
InsertOk ==
    /\ pc = "insert"
    /\ insert_i <= Len(extracted_emails)
    /\ attempts' = Append(attempts, extracted_emails[insert_i])
    /\ store' = Append(store, extracted_emails[insert_i])
    /\ stored_count' = stored_count + 1
    /\ insert_i' = insert_i + 1
    /\ UNCHANGED <<mailbox, now, pc, request, date_since, conn, connects,
                   sender_i, messages, email_data, result, extracted_emails,
                   response, reqs, faults, seen, sumLog, storeAtStart,
                   error_msg>>

\* mutant: break instead of continue
InsertFail_break ==
    /\ pc = "insert"
    /\ insert_i <= Len(extracted_emails)
    /\ faults < MaxFaults
    /\ faults' = faults + 1
    /\ attempts' = Append(attempts, extracted_emails[insert_i])
    /\ insert_i' = Len(extracted_emails) + 1
    /\ UNCHANGED <<mailbox, now, store, pc, request, date_since, conn,
                   connects, sender_i, messages, email_data, result,
                   extracted_emails, stored_count, response, reqs, seen,
                   sumLog, storeAtStart, error_msg>>

\* the insert raises: logged, continue
InsertFail ==
    /\ pc = "insert"
    /\ insert_i <= Len(extracted_emails)
    /\ faults < MaxFaults
    /\ faults' = faults + 1
    /\ attempts' = Append(attempts, extracted_emails[insert_i])
    /\ insert_i' = insert_i + 1
    /\ UNCHANGED <<mailbox, now, store, pc, request, date_since, conn,
                   connects, sender_i, messages, email_data, result,
                   extracted_emails, stored_count, response, reqs, seen,
                   sumLog, storeAtStart,
                   error_msg>>

\* the insert loop is over: the counts are returned
Respond ==
    /\ pc = "insert"
    /\ insert_i > Len(extracted_emails)
    /\ response' = StoredResponse(Len(extracted_emails), stored_count,
                                  request.sender_addresses)
    /\ pc' = "done"
    /\ UNCHANGED <<mailbox, now, store, request, date_since, conn, connects,
                   sender_i, messages, email_data, result, extracted_emails,
                   insert_i, stored_count, reqs, faults, seen, sumLog,
                   attempts, storeAtStart,
                   error_msg>>

----------------------------------------------------------------------------
(* GET /emails *)

\* select("*").order('date.desc'): the rows by date, latest first, rows of
\* equal date in table order
InsertDesc(r, sorted) ==
    LET k == Cardinality({i \in 1..Len(sorted) : sorted[i].date >= r.date})
    IN  SubSeq(sorted, 1, k) \o <<r>> \o SubSeq(sorted, k + 1, Len(sorted))

RECURSIVE OrderByDateDesc(_)
OrderByDateDesc(rows) ==
    IF rows = <<>>
    THEN <<>>
    ELSE InsertDesc(rows[Len(rows)],
                    OrderByDateDesc(SubSeq(rows, 1, Len(rows) - 1)))

\* mutant: the empty store is answered with an empty list
EmailsResponse_always_list(emails) ==
    [to |-> "emails", status_code |-> 200,
     body |-> [emails |-> emails, total_count |-> Len(emails)]]

EmailsResponse(emails) ==
    IF emails = <<>>
    THEN [to |-> "emails", status_code |-> 200,
          body |-> [message |-> "No emails found in database"]]
    ELSE [to |-> "emails", status_code |-> 200,
          body |-> [emails |-> emails, total_count |-> Len(emails)]]

GetEmailsOk ==
    /\ pc = "idle"
    /\ response' = EmailsResponse(OrderByDateDesc(store))
    /\ pc' = "done"
    /\ UNCHANGED <<mailbox, now, store, request, date_since, conn,
                   connects, sender_i, messages, email_data, result,
                   extracted_emails, insert_i, stored_count, reqs, faults,
                   seen, sumLog, attempts, storeAtStart,
                   error_msg>>

\* the query raises: HTTP 500 with the error text
GetEmailsFail ==
    /\ pc = "idle"
    /\ faults < MaxFaults
    /\ faults' = faults + 1
    /\ response' = ErrorResponse("emails",
                      [kind |-> "HTTPException", status_code |-> 500,
                       detail |-> [text |-> "query failed"]])
    /\ pc' = "done"
    /\ UNCHANGED <<mailbox, now, store, request, date_since, conn,
                   connects, sender_i, messages, email_data, result,
                   extracted_emails, insert_i, stored_count, reqs, seen,
                   sumLog, attempts, storeAtStart,
                   error_msg>>

\* the response is sent and the locals of the handler are dropped
Finish ==
    /\ pc = "done"
    /\ pc' = "idle"
    /\ request' = [email_address |-> Account, sender_addresses |-> <<>>]
    /\ date_since' = Cutoff0
    /\ conn' = "none"
    /\ connects' = 0
    /\ sender_i' = 1
    /\ messages' = <<>>
    /\ email_data' = <<>>
    /\ result' = "pending"
    /\ extracted_emails' = <<>>
    /\ insert_i' = 1
    /\ stored_count' = 0
    /\ response' = NoResponse
    /\ seen' = <<>>
    /\ sumLog' = <<>>
    /\ attempts' = <<>>
    /\ storeAtStart' = <<>>
    /\ error_msg' = ""
    /\ UNCHANGED <<mailbox, now, store, reqs, faults>>

\* an hour passes between two requests
Tick ==
    /\ pc = "idle"
    /\ now < Now0 + MaxTicks
    /\ now' = now + 1
    /\ UNCHANGED <<mailbox, store, pc, request, date_since, conn, connects,
                   sender_i, messages, email_data, result, extracted_emails,
                   insert_i, stored_count, response, reqs, faults, seen,
                   sumLog, attempts, storeAtStart,
                   error_msg>>

Next ==
    \/ StartExtract
    \/ ConnectFail
    \/ LoginFail
    \/ LoginOk
    \/ NextSender
    \/ FetchFail
    \/ SkipOldMessage
    \/ SkipBadMessage
    \/ BuildRecord
    \/ EndSender
    \/ ExtractReturn
    \/ InsertOk
    \/ InsertFail
    \/ Respond
    \/ GetEmailsOk
    \/ GetEmailsFail
    \/ Finish
    \/ Tick

Spec == Init /\ [][Next]_vars

----------------------------------------------------------------------------
(* Properties *)

Range(q) == {q[i] : i \in 1..Len(q)}
Count(q, r) == Cardinality({i \in 1..Len(q) : q[i] = r})
SameRows(a, b) ==
    /\ Len(a) = Len(b)
    /\ \A r \in Range(a) \cup Range(b) : Count(a, r) = Count(b, r)
IsPrefix(a, b) == Len(a) <= Len(b) /\ SubSeq(b, 1, Len(a)) = a
Uids(q) == [i \in 1..Len(q) |-> q[i].uid]

\* the message is within the window by the filter's comparison and its
\* record can be built
Good(m) == MsgDate(m) >= date_since /\ ~m.bad

\* what the searches of the request's senders yield, in order
Expected ==
    Concat([i \in 1..Len(request.sender_addresses) |->
               Fetch(mailbox, request.sender_addresses[i], date_since)])

\* the request was answered with the counts
Stored ==
    /\ pc = "done"
    /\ response.to = "extract"
    /\ response.status_code = 200
    /\ "emails_found" \in DOMAIN response.body

MailboxErrors == {"connect failed", "login failed", "fetch failed"}

\* C1: every record the extractor holds has a date at or after the cutoff,
\* and the message it was built from has a true UTC instant at or after the
\* cutoff, whatever the offset of its Date header.
C1_ReturnedWithinWindow ==
    \A i \in 1..Len(email_data) :
        /\ email_data[i].date >= date_since
        /\ TrueInstant(mailbox[email_data[i].uid]) >= date_since

\* C2: when the extractor has returned or raised, it has opened exactly one
\* connection and that connection is not left open.
C2_OneConnectionClosed ==
    result # "pending" => connects = 1 /\ conn # "open"

\* C3: once the mailbox failed (connect, login, search or fetch), the
\* extraction is over and the request is answered with HTTP 500 whose body
\* is {message: "Failed to fetch emails", error: the error text, email: the
\* mailbox address}, unchanged by the handler.
C3_MailboxFailureIs500 ==
    error_msg # "" =>
        /\ error_msg \in MailboxErrors
        /\ result = "raised"
        /\ pc = "done"
        /\ response = [to |-> "extract", status_code |-> 500,
                       body |-> [message |-> "Failed to fetch emails",
                                 error |-> error_msg,
                                 email |-> request.email_address]]

C3_Witness ==
    /\ error_msg = "fetch failed"
    /\ sender_i = 2
    /\ response.status_code = 500

\* C4: a message whose record cannot be built is the only one skipped: the
\* records built so far are those of all other messages seen that pass the
\* filter, the extractor only raises on a mailbox failure, and when it
\* returns it has seen every message of every sender.
C4_BadMessageOnlySkipped ==
    /\ Uids(email_data) = Uids(SelectSeq(seen, Good))
    /\ result = "raised" => error_msg \in MailboxErrors
    /\ result = "returned" => seen = Expected /\ extracted_emails = email_data

C4_Witness ==
    /\ result = "returned"
    /\ Len(seen) >= 2
    /\ seen[1].bad
    /\ Good(seen[2])
    /\ Len(extracted_emails) = 1

\* C5: each summarization call yields a record, whose summary is the sentinel
\* exactly when the call failed; such a record is counted in emails_found
\* and submitted for insertion like the others.
C5_SentinelOnFailure ==
    /\ Len(sumLog) = Len(email_data)
    /\ \A i \in 1..Len(email_data) :
          email_data[i].summary =
              IF sumLog[i] = "error" THEN Sentinel ELSE sumLog[i]
    /\ Stored => /\ response.body.emails_found = Len(email_data)
                 /\ attempts = email_data

C5_Witness ==
    /\ Stored
    /\ Len(attempts) = 2
    /\ attempts[1].summary = Sentinel
    /\ attempts[2].summary # Sentinel
    /\ response.body.emails_stored = 2
    /\ \E k \in 1..Len(store) : store[k].summary = Sentinel

\* C6: the records are submitted for insertion one by one in extraction
\* order, each once, whatever the earlier inserts did; the request succeeds
\* and emails_stored is the number of rows added, at most emails_found, which
\* is the number of extracted records.
C6_EachRecordOneInsert ==
    /\ pc = "insert" => attempts = SubSeq(extracted_emails, 1, insert_i - 1)
    /\ Stored =>
          /\ attempts = extracted_emails
          /\ response.body.emails_found = Len(extracted_emails)
          /\ response.body.emails_stored = Len(store) - Len(storeAtStart)
          /\ response.body.emails_stored <= response.body.emails_found
    /\ (pc = "done" /\ result = "returned" /\ extracted_emails # <<>>) => Stored

C6_Witness ==
    /\ Stored
    /\ response.body.emails_found = 2
    /\ response.body.emails_stored = 1
    /\ store = Append(storeAtStart, extracted_emails[2])

\* C7: when the extractor returns no record, the request is answered with
\* 200 and a body of exactly a message and senders_processed, the input
\* sender list, and nothing was submitted to the store.
C7_NoEmailsShape ==
    (result = "returned" /\ extracted_emails = <<>>) =>
        /\ pc = "done"
        /\ response.to = "extract"
        /\ response.status_code = 200
        /\ DOMAIN response.body = {"message", "senders_processed"}
        /\ response.body.senders_processed = request.sender_addresses
        /\ attempts = <<>>
        /\ store = storeAtStart

C7_Witness ==
    /\ result = "returned"
    /\ extracted_emails = <<>>
    /\ seen # <<>>
    /\ Len(request.sender_addresses) = 2

\* C8: GET /emails answers an empty store with only the message "No emails
\* found in database", a non-empty store with all its rows by date
\* descending and their number as total_count, and a failed query with HTTP
\* 500 and the error text.
C8_ListingShape ==
    (pc = "done" /\ response.to = "emails") =>
        \/ /\ response.status_code = 500
           /\ response.body = [text |-> "query failed"]
        \/ /\ response.status_code = 200
           /\ store = <<>>
           /\ response.body = [message |-> "No emails found in database"]
        \/ /\ response.status_code = 200
           /\ store # <<>>
           /\ DOMAIN response.body = {"emails", "total_count"}
           /\ SameRows(response.body.emails, store)
           /\ \A i, j \in 1..Len(store) :
                 i <= j => response.body.emails[i].date
                              >= response.body.emails[j].date
           /\ response.body.total_count = Len(response.body.emails)

C8_Witness ==
    /\ pc = "done"
    /\ response.to = "emails"
    /\ response.status_code = 200
    /\ Len(store) >= 2
    /\ store[1].date < store[2].date
    /\ response.body.total_count = Len(store)

\* C9: no step removes or changes a stored row, GET /emails leaves the store
\* as it is, and a request whose inserts all succeeded has appended every
\* extracted record, whether or not an equal row was already stored.
C9_AppendOnlyNoDedup ==
    /\ []((Stored /\ response.body.emails_stored = response.body.emails_found)
             => store = storeAtStart \o extracted_emails)
    /\ [][/\ IsPrefix(store, store')
          /\ (pc = "idle" /\ response'.to = "emails") => store' = store]_vars

C9_Witness ==
    /\ Stored
    /\ reqs = 2
    /\ storeAtStart # <<>>
    /\ extracted_emails = storeAtStart
    /\ store = storeAtStart \o storeAtStart

\* C10: nothing is submitted to the store before the extractor has returned,
\* with every record summarized; when the extractor raised, the request
\* submitted nothing, the store is as it was and the handler holds no record.
C10_AllOrNothing ==
    /\ attempts # <<>> =>
          /\ result = "returned"
          /\ pc \in {"insert", "done"}
          /\ Len(sumLog) = Len(extracted_emails)
    /\ pc \in {"connect", "senders", "messages"} => store = storeAtStart
    /\ result = "raised" =>
          /\ attempts = <<>>
          /\ store = storeAtStart
          /\ extracted_emails = <<>>

C10_Witness ==
    /\ result = "raised"
    /\ Len(email_data) >= 1
    /\ Len(sumLog) >= 1
    /\ sender_i = 2
    /\ storeAtStart # <<>>

====
